---- MODULE Spec2Model ----
(***************************************************************************)
(* VoCoType fcitx5 addon: the push-to-talk session controller              *)
(* (src/fcitx5/addon/vocotype.cpp) and the backend client                  *)
(* (src/fcitx5/addon/ipc_client.cpp).                                      *)
(*                                                                         *)
(* The owning thread runs the handlers keyEvent, reset, deactivate, the    *)
(* destructor and the callbacks of the event dispatcher; each is one       *)
(* action.  Every stopRecording spawns a detached worker thread, whose     *)
(* blocking steps (stop the recorder, transcribe, remove, schedule) are    *)
(* separate actions that interleave with the owning thread.                *)
(***************************************************************************)
EXTENDS Integers, Sequences, FiniteSets, TLC

\* Bound: the number of recorder processes forked in one run.
MaxRec == 2

\* Bound: the number of times in a row that a signal interrupts a waitpid,
\* and the number of interrupted send and recv calls of one sendRequest.
MaxEintr == 2

\* Bounds: the bytes of a request and the bytes that the backend sends
\* before it closes the connection.
MaxReq == 2
MaxResp == 2

\* The input contexts of the host.
Ctx == {"c1", "c2"}

\* Recorder process ids; pid p also names its stdin descriptor and its
\* stdout stream.
Pid == 1..MaxRec

PTT_KEYVAL == 65478
FcitxKey_space == 32
FcitxKey_Shift_L == 65505
FcitxKey_Shift_R == 65506

\* The keys that are neither the push-to-talk key nor part of a switch
\* hotkey: 97 is FcitxKey_a.
OrdinaryKeys == {97}

NoPid == -1
NoFd == -1
NullFile == 0

VARIABLES
    addonAlive,          \* the VoCoTypeAddon object has not been destroyed
    crashed,             \* the process died on a use of a destroyed object
    dangling,            \* a member of the destroyed addon has been used
    configValid,         \* python_venv_path_ and recorder_script_path_ set
    alive,               \* alive[c]: input context c exists
    is_recording_,
    recorder_pid_,
    recorder_stdin_fd_,
    recorder_stdout_,
    nextPid,             \* the pid the next fork returns
    ui,                  \* ui[c]: the input panel of context c
    lastOps,             \* UI operations of the last owning-thread handler
    lastEv,              \* the last owning-thread handler that ran
    worker,              \* worker[p]: the detached thread handed recorder p
    queue,               \* callbacks scheduled on the event dispatcher
    procLog,             \* procLog[p]: system calls made on recorder p
    stopCalls,           \* stopCalls[p]: calls of stopRecorderProcess on p
    file,                \* file[p]: the audio artifact written by recorder p
    removeCalls,         \* removeCalls[p]: std::remove calls on p's artifact
    transcribeCalls,     \* transcribeCalls[p]: transcribe requests for p
    fds,                 \* the descriptors that the addon's process has open
    call                 \* the last call of the client specification

sessionVars == <<is_recording_, recorder_pid_, recorder_stdin_fd_, recorder_stdout_>>
hostVars == <<addonAlive, crashed, dangling, configValid, call, alive>>
osVars == <<procLog, stopCalls, file, removeCalls, transcribeCalls, fds>>
vars == <<addonAlive, crashed, dangling, configValid, alive, is_recording_,
          recorder_pid_, recorder_stdin_fd_, recorder_stdout_, nextPid, ui,
          lastOps, lastEv, worker, queue, procLog, stopCalls, file,
          removeCalls, transcribeCalls, fds, call>>

----------------------------------------------------------------------------
\* The input panel.

NoPreedit == [kind |-> "none", text |-> ""]
EmptyPanel == [preedit |-> NoPreedit, cands |-> <<>>, cursor |-> 0, page |-> 0]
FreedPanel == [preedit |-> [kind |-> "freed", text |-> ""], cands |-> <<>>,
               cursor |-> 0, page |-> 0]

\* A handler threads the panel of its context and the list of the UI
\* operations it has made through the UI functions.
UiOp(op, text) == [op |-> op, text |-> text]
Begin(c) == [panel |-> ui[c], ops |-> <<>>]

SetClientPreedit(s, kind, text, op) ==
    [panel |-> [s.panel EXCEPT !.preedit = [kind |-> kind, text |-> text]],
     ops |-> Append(s.ops, UiOp(op, text))]

clearUI(s) == [panel |-> EmptyPanel, ops |-> Append(s.ops, UiOp("clear", ""))]

\* A commitText that emits the text before it clears the panel.
commitTextThenClear(s, text) ==
    clearUI([panel |-> s.panel, ops |-> Append(s.ops, UiOp("commit", text))])

commitText(s, text) ==
    LET s1 == clearUI(s)
    IN [panel |-> s1.panel, ops |-> Append(s1.ops, UiOp("commit", text))]

showError(s, error) == SetClientPreedit(s, "err", error, "error")

\* updateUI: the preedit (underlined text, or none when the text is empty),
\* then the candidate list (or none when there is no candidate).
DisplayCandidate(cand) ==
    IF cand.comment # "" THEN <<cand.text, " ", cand.comment>> ELSE <<cand.text>>

updateUI(s, state) ==
    LET pre == IF state.preedit_text # ""
               THEN [kind |-> "text", text |-> state.preedit_text]
               ELSE NoPreedit
        n == Len(state.candidates)
        cursor_index == IF state.highlighted_index < 0 \/ state.highlighted_index >= n
                        THEN 0 ELSE state.highlighted_index
        p1 == [s.panel EXCEPT !.preedit = pre]
        p2 == IF n > 0
              THEN [p1 EXCEPT !.cands = [i \in 1..n |-> DisplayCandidate(state.candidates[i])],
                              !.cursor = cursor_index,
                              !.page = state.page_size]
              ELSE [p1 EXCEPT !.cands = <<>>, !.cursor = 0, !.page = 0]
    IN [panel |-> p2,
        ops |-> s.ops \o <<UiOp("preedit", state.preedit_text), UiOp("cands", "")>>]

----------------------------------------------------------------------------
\* The backend client (ipc_client.cpp).  A round trip rt is what the
\* backend and the transport do with one request: fail names the step of
\* sendRequest that fails ("none": the response arrives), malformed says
\* that the response is not parseable, json is the parsed response.

ExceptionWhat(fail) ==
    CASE fail = "socket" -> "Failed to create socket"
      [] fail = "connect" -> "Failed to connect to backend"
      [] fail = "send" -> "Failed to send request"
      [] fail = "recv" -> "Failed to receive response"
      [] OTHER -> "parse error"

TranscribeResult(success, text, error) ==
    [success |-> success, text |-> text, error |-> error]

transcribeAudio(rt) ==
    IF rt.fail # "none" THEN TranscribeResult(FALSE, "", ExceptionWhat(rt.fail))
    ELSE IF rt.malformed THEN TranscribeResult(FALSE, "", ExceptionWhat("parse"))
    ELSE LET success == IF rt.json.has_success THEN rt.json.success ELSE FALSE
         IN IF success
            THEN TranscribeResult(TRUE, IF rt.json.has_text THEN rt.json.text ELSE "", "")
            ELSE TranscribeResult(FALSE, "",
                     IF rt.json.has_error THEN rt.json.error ELSE "Unknown error")

\* RimeUIState with its member initializers.
DefaultState ==
    [handled |-> FALSE, commit_text |-> "", preedit_text |-> "", cursor_pos |-> 0,
     candidates |-> <<>>, highlighted_index |-> 0, page_size |-> 5]

\* processKey reads the fields in order; a conversion of an absent
\* sub-field throws, and the handler of the exception only resets handled.
processKey(rt) ==
    IF rt.fail # "none" \/ rt.malformed THEN DefaultState
    ELSE
    LET j == rt.json
        s1 == [DefaultState EXCEPT !.handled = IF j.has_handled THEN j.handled ELSE FALSE]
        s2 == IF j.has_commit THEN [s1 EXCEPT !.commit_text = j.commit] ELSE s1
        Caught(st) == [st EXCEPT !.handled = FALSE]
        Cands(st) ==
            IF ~j.has_candidates THEN st
            ELSE [st EXCEPT !.candidates = j.candidates,
                            !.highlighted_index = IF j.has_highlighted_index
                                                  THEN j.highlighted_index ELSE 0,
                            !.page_size = IF j.has_page_size THEN j.page_size ELSE 5]
    IN IF ~j.has_preedit THEN Cands(s2)
       ELSE IF ~j.preedit.has_text THEN Caught(s2)
       ELSE LET s3 == [s2 EXCEPT !.preedit_text = j.preedit.text]
            IN IF ~j.preedit.has_cursor_pos THEN Caught(s3)
               ELSE Cands([s3 EXCEPT !.cursor_pos = j.preedit.cursor_pos])

\* The exception types that derive from std::exception: what sendRequest
\* throws, and what json::parse and the conversions of nlohmann::json throw.
StdExceptions == {"runtime_error", "parse_error", "type_error"}

NoException == [exc |-> "none", what |-> ""]

\* sendRequest throws std::runtime_error at its first step that fails.
sendRequest(rt) ==
    IF rt.fail # "none"
    THEN [exc |-> "runtime_error", what |-> ExceptionWhat(rt.fail)]
    ELSE NoException

\* sendRequest followed by json::parse of the response: the exception that
\* leaves the two calls.
SendAndParse(rt) ==
    IF sendRequest(rt).exc # "none" THEN sendRequest(rt)
    ELSE IF rt.malformed THEN [exc |-> "parse_error", what |-> ExceptionWhat("parse")]
    ELSE NoException

\* What a function of the client does for its caller: exc is the exception
\* that leaves it ("none": it returns), ret is what it returns.
Outcome(exc, ret) == [exc |-> exc, ret |-> ret]

\* A ping whose handler catches no exception.
pingUncaught(rt) ==
    LET e == SendAndParse(rt)
    IN IF e.exc = "none"
       THEN Outcome("none", IF rt.json.has_pong THEN rt.json.pong ELSE FALSE)
       ELSE Outcome(e.exc, FALSE)

ping(rt) ==
    LET e == SendAndParse(rt)
    IN IF e.exc = "none"
       THEN Outcome("none", IF rt.json.has_pong THEN rt.json.pong ELSE FALSE)
       ELSE IF e.exc \in StdExceptions THEN Outcome("none", FALSE)
       ELSE Outcome(e.exc, FALSE)

\* IPCClient::reset: the response is not parsed.
IPCClient_reset(rt) ==
    LET e == sendRequest(rt)
    IN IF e.exc = "none" \/ e.exc \in StdExceptions
       THEN Outcome("none", "-")
       ELSE Outcome(e.exc, "-")

----------------------------------------------------------------------------
\* Keys.  A key is its keysym and the set of modifier states held.

KeyStates == {"Shift", "CapsLock", "Ctrl", "Alt", "Super"}

isIBusSwitchHotkey(keyval, states) ==
    \/ keyval = FcitxKey_space /\ ("Ctrl" \in states \/ "Super" \in states)
    \/ /\ keyval \in {FcitxKey_Shift_L, FcitxKey_Shift_R}
       /\ ("Ctrl" \in states \/ "Alt" \in states)

\* A mask with the bits of Control and Alt exchanged.
RimeMaskSwapped(states) ==
    (IF "Shift" \in states THEN 2^0 ELSE 0)
    + (IF "CapsLock" \in states THEN 2^1 ELSE 0)
    + (IF "Ctrl" \in states THEN 2^3 ELSE 0)
    + (IF "Alt" \in states THEN 2^2 ELSE 0)

RimeMask(states) ==
    (IF "Shift" \in states THEN 2^0 ELSE 0)
    + (IF "CapsLock" \in states THEN 2^1 ELSE 0)
    + (IF "Ctrl" \in states THEN 2^2 ELSE 0)
    + (IF "Alt" \in states THEN 2^3 ELSE 0)

----------------------------------------------------------------------------
\* The recorder process.  A line that the recorder writes is a sequence of
\* characters: 10 is '\n', 13 is '\r', PathChar(p) stands for the path of
\* the artifact that recorder p has written.

PathChar(p) == 100 + p
PidOfPath(path) == path[1] - 100

\* What fgets can return from recorder p's output once its input is
\* closed: nothing (end of file), an empty line, or the path of the
\* artifact, with or without a line end.
RecorderLines(p) ==
    {<<>>, <<10>>, <<PathChar(p)>>, <<PathChar(p), 10>>, <<PathChar(p), 13, 10>>}

RECURSIVE TrimLine(_)
TrimLine(line) ==
    IF line # <<>> /\ (line[Len(line)] = 10 \/ line[Len(line)] = 13)
    THEN TrimLine(SubSeq(line, 1, Len(line) - 1))
    ELSE line

LogCall(log, p, c) == [log EXCEPT ![p] = Append(@, c)]

\* The descriptors of start attempt n: the two ends of stdin_pipe and of
\* stdout_pipe.  recorder_stdin_fd_ = n is <<n, "stdin_w">> and
\* recorder_stdout_ = n is the stream over <<n, "stdout_r">>.
Fd(n, end) == <<n, end>>
Open(f, d) == f \cup {d}
Close(f, d) == f \ {d}

\* The calls of a waitpid loop that is interrupted eintr times: every
\* interrupted call returns -1 with EINTR and is repeated.
RECURSIVE WaitLoop(_)
WaitLoop(eintr) ==
    IF eintr = 0 THEN <<"wait">> ELSE <<"wait_eintr">> \o WaitLoop(eintr - 1)

\* stopRecorderProcess(pid, stdin_fd, stdout_file), where the recorder
\* answers the read with line and eintr signals interrupt the wait.
\* Returns the path with the system calls made, the artifact the recorder
\* has written and the descriptors left open.
stopRecorderProcess(pid, stdin_fd, stdout_file, line, eintr) ==
    LET l1 == IF stdin_fd >= 0 THEN LogCall(procLog, stdin_fd, "close_in") ELSE procLog
        f1 == IF stdin_fd >= 0 THEN Close(fds, Fd(stdin_fd, "stdin_w")) ELSE fds
        l2 == IF stdout_file # NullFile
              THEN LogCall(LogCall(l1, stdout_file, "read_line"), stdout_file, "close_out")
              ELSE l1
        f2 == IF stdout_file # NullFile THEN Close(f1, Fd(stdout_file, "stdout_r")) ELSE f1
        l3 == IF pid > 0 THEN [l2 EXCEPT ![pid] = @ \o WaitLoop(eintr)] ELSE l2
        audio_path == IF stdout_file # NullFile THEN TrimLine(line) ELSE <<>>
    IN [audio_path |-> audio_path,
        procLog |-> l3,
        fds |-> f2,
        file |-> IF audio_path # <<>>
                 THEN [file EXCEPT ![PidOfPath(audio_path)] = "exists"]
                 ELSE file]

\* std::remove(path) on the file table f.
Remove(f, path) == [f EXCEPT ![PidOfPath(path)] = "deleted"]

----------------------------------------------------------------------------
\* The session controller.

NoResult == TranscribeResult(FALSE, "", "")

\* The record of a handler of the owning thread: the event, and with rec and
\* live the session flag and the liveness of the context when it began.
Ev(kind, c, keyval, release, accepted, forwarded, mask) ==
    [kind |-> kind, ctx |-> c, keyval |-> keyval, release |-> release,
     accepted |-> accepted, forwarded |-> forwarded, mask |-> mask,
     rec |-> is_recording_, live |-> (c \in Ctx /\ alive[c]),
     w |-> 0, cb |-> "-", res |-> NoResult, rime |-> DefaultState, states |-> {}]

\* What a failed or successful start of the recorder is: the first step of
\* startRecording that fails, or "ok"; "fdopen_eintr" is a failed fdopen
\* after which a signal interrupts the waitpid of line 270.
StartOutcomes == {"ok", "pipe1", "pipe2", "fork", "fdopen", "fdopen_eintr"}

\* The part of the state that startRecording and stopRecording may change.
Finish(c, s) ==
    /\ ui' = [ui EXCEPT ![c] = s.panel]
    /\ lastOps' = s.ops

startRecording(c, s, outcome) ==
    LET n == nextPid
        in_r == Fd(n, "stdin_r")
        in_w == Fd(n, "stdin_w")
        out_r == Fd(n, "stdout_r")
        out_w == Fd(n, "stdout_w")
        p1 == Open(Open(fds, in_r), in_w)
        p2 == Open(Open(p1, out_r), out_w)
        parent == Close(Close(p2, in_r), out_w)
    IN
    IF is_recording_
    THEN Finish(c, s) /\ UNCHANGED <<sessionVars, nextPid, worker, procLog, fds>>
    ELSE IF ~configValid
    THEN /\ Finish(c, showError(s, "recorder configuration invalid"))
         /\ UNCHANGED <<sessionVars, nextPid, worker, procLog, fds>>
    ELSE IF outcome = "pipe1"
    THEN /\ Finish(c, showError(s, "recorder start failed"))
         /\ UNCHANGED <<sessionVars, nextPid, worker, procLog, fds>>
    ELSE IF outcome = "pipe2"
    THEN /\ fds' = Close(Close(p1, in_r), in_w)
         /\ Finish(c, showError(s, "recorder start failed"))
         /\ UNCHANGED <<sessionVars, nextPid, worker, procLog>>
    ELSE IF outcome = "fork"
    THEN /\ fds' = Close(Close(Close(Close(p2, in_r), in_w), out_r), out_w)
         /\ Finish(c, showError(s, "recorder start failed"))
         /\ UNCHANGED <<sessionVars, nextPid, worker, procLog>>
    ELSE IF outcome \in {"fdopen", "fdopen_eintr"}
    THEN /\ fds' = Close(Close(parent, out_r), in_w)
         /\ procLog' = [procLog EXCEPT ![n] =
                           <<"fork", "kill",
                             IF outcome = "fdopen" THEN "wait" ELSE "wait_eintr">>]
         /\ nextPid' = nextPid + 1
         /\ Finish(c, showError(s, "recorder start failed"))
         /\ UNCHANGED <<sessionVars, worker>>
    ELSE /\ fds' = parent
         /\ recorder_pid_' = n
         /\ recorder_stdin_fd_' = n
         /\ recorder_stdout_' = n
         /\ is_recording_' = TRUE
         /\ procLog' = [procLog EXCEPT ![n] = <<"fork">>]
         /\ nextPid' = nextPid + 1
         /\ Finish(c, SetClientPreedit(s, "rec", "", "recording"))
         /\ UNCHANGED worker

\* The thread that stopRecording detaches, with what it captures by value.
NewWorker(c, transcribe) ==
    [pc |-> "spawned", pid |-> recorder_pid_, stdin_fd |-> recorder_stdin_fd_,
     stdout_file |-> recorder_stdout_, transcribe |-> transcribe, ic_ref |-> c,
     audio_path |-> <<>>, result |-> NoResult]

\* A stopRecording that hands the handle to the worker and leaves it stored.
stopRecordingKeepsHandle(c, s, transcribe) ==
    IF ~is_recording_
    THEN Finish(c, s) /\ UNCHANGED <<sessionVars, nextPid, worker, procLog, fds>>
    ELSE /\ is_recording_' = FALSE
         /\ Finish(c, IF transcribe
                      THEN SetClientPreedit(s, "proc", "", "processing")
                      ELSE clearUI(s))
         /\ worker' = Append(worker, NewWorker(c, transcribe))
         /\ UNCHANGED <<recorder_pid_, recorder_stdin_fd_, recorder_stdout_, nextPid, procLog, fds>>

\* A stopRecording that forgets the process and its input but leaves the
\* output stream stored.
stopRecordingKeepsStream(c, s, transcribe) ==
    IF ~is_recording_
    THEN Finish(c, s) /\ UNCHANGED <<sessionVars, nextPid, worker, procLog, fds>>
    ELSE /\ is_recording_' = FALSE
         /\ Finish(c, IF transcribe
                      THEN SetClientPreedit(s, "proc", "", "processing")
                      ELSE clearUI(s))
         /\ recorder_pid_' = NoPid
         /\ recorder_stdin_fd_' = NoFd
         /\ worker' = Append(worker, NewWorker(c, transcribe))
         /\ UNCHANGED <<recorder_stdout_, nextPid, procLog, fds>>

stopRecording(c, s, transcribe) ==
    IF ~is_recording_
    THEN Finish(c, s) /\ UNCHANGED <<sessionVars, nextPid, worker, procLog, fds>>
    ELSE /\ is_recording_' = FALSE
         /\ Finish(c, IF transcribe
                      THEN SetClientPreedit(s, "proc", "", "processing")
                      ELSE clearUI(s))
         /\ recorder_pid_' = NoPid
         /\ recorder_stdin_fd_' = NoFd
         /\ recorder_stdout_' = NullFile
         /\ worker' = Append(worker, NewWorker(c, transcribe))
         /\ UNCHANGED <<nextPid, procLog, fds>>

stopAndTranscribe(c, s) == stopRecording(c, s, TRUE)

\* A push-to-talk handler that toggles on every event of the key, whether
\* press or release.
PttKeyToggle(c, is_release, outcome) ==
    IF is_recording_
    THEN stopAndTranscribe(c, Begin(c))
    ELSE startRecording(c, Begin(c), outcome)

\* keyEvent, the push-to-talk key.
PttKey(c, is_release, outcome) ==
    IF is_release
    THEN IF is_recording_
         THEN stopAndTranscribe(c, Begin(c))
         ELSE Finish(c, Begin(c)) /\ UNCHANGED <<sessionVars, nextPid, worker, procLog, fds>>
    ELSE IF ~is_recording_
         THEN startRecording(c, Begin(c), outcome)
         ELSE Finish(c, Begin(c)) /\ UNCHANGED <<sessionVars, nextPid, worker, procLog, fds>>

\* A forwarding that applies the composition state before it commits.
ForwardKeyCommitLast(c, keyval, states, rt) ==
    LET state == processKey(rt)
        s1 == updateUI(Begin(c), state)
    IN /\ Finish(c, IF state.commit_text # ""
                    THEN commitText(s1, state.commit_text)
                    ELSE s1)
       /\ lastEv' = [Ev("key", c, keyval, FALSE, state.handled, TRUE, RimeMask(states))
                       EXCEPT !.rime = state, !.states = states]
       /\ UNCHANGED <<sessionVars, nextPid, worker, procLog, fds>>

\* keyEvent, a press of another key that is no switch hotkey: forwarded.
ForwardKey(c, keyval, states, rt) ==
    LET state == processKey(rt)
        s1 == IF state.commit_text # ""
              THEN commitText(Begin(c), state.commit_text)
              ELSE Begin(c)
    IN /\ Finish(c, updateUI(s1, state))
       /\ lastEv' = [Ev("key", c, keyval, FALSE, state.handled, TRUE, RimeMask(states))
                       EXCEPT !.rime = state, !.states = states]
       /\ UNCHANGED <<sessionVars, nextPid, worker, procLog, fds>>

keyEvent(c, keyval, states, is_release, outcome, rt) ==
    /\ addonAlive /\ ~crashed /\ alive[c]
    /\ IF keyval = PTT_KEYVAL
       THEN /\ PttKey(c, is_release, outcome)
            /\ lastEv' = [Ev("key", c, keyval, is_release, TRUE, FALSE, 0)
                            EXCEPT !.states = states]
       ELSE IF ~is_release /\ ~isIBusSwitchHotkey(keyval, states)
       THEN ForwardKey(c, keyval, states, rt)
       ELSE /\ Finish(c, Begin(c))
            /\ lastEv' = [Ev("key", c, keyval, is_release, FALSE, FALSE, 0)
                            EXCEPT !.states = states]
            /\ UNCHANGED <<sessionVars, nextPid, worker, procLog, fds>>
    /\ UNCHANGED <<hostVars, queue, stopCalls, file, removeCalls, transcribeCalls>>

reset(c) ==
    /\ addonAlive /\ ~crashed /\ alive[c]
    /\ Finish(c, clearUI(Begin(c)))
    /\ lastEv' = Ev("reset", c, 0, FALSE, FALSE, FALSE, 0)
    /\ UNCHANGED <<hostVars, sessionVars, nextPid, worker, queue, osVars>>

\* A deactivate that stops the recording the way a release does.
deactivateTranscribes(c) ==
    /\ addonAlive /\ ~crashed /\ alive[c]
    /\ IF is_recording_
       THEN stopRecording(c, clearUI(Begin(c)), TRUE)
       ELSE Finish(c, clearUI(Begin(c))) /\ UNCHANGED <<sessionVars, nextPid, worker, procLog, fds>>
    /\ lastEv' = Ev("deactivate", c, 0, FALSE, FALSE, FALSE, 0)
    /\ UNCHANGED <<hostVars, queue, stopCalls, file, removeCalls, transcribeCalls>>

deactivate(c) ==
    /\ addonAlive /\ ~crashed /\ alive[c]
    /\ IF is_recording_
       THEN stopRecording(c, clearUI(Begin(c)), FALSE)
       ELSE Finish(c, clearUI(Begin(c))) /\ UNCHANGED <<sessionVars, nextPid, worker, procLog, fds>>
    /\ lastEv' = Ev("deactivate", c, 0, FALSE, FALSE, FALSE, 0)
    /\ UNCHANGED <<hostVars, queue, stopCalls, file, removeCalls, transcribeCalls>>

\* ~VoCoTypeAddon: a recorder still stored is stopped on the owning
\* thread and its artifact removed.
DestroyAddon(line, eintr) ==
    /\ addonAlive /\ ~crashed
    /\ addonAlive' = FALSE
    /\ IF recorder_pid_ > 0 \/ recorder_stdout_ # NullFile \/ recorder_stdin_fd_ >= 0
       THEN LET r == stopRecorderProcess(recorder_pid_, recorder_stdin_fd_,
                                         recorder_stdout_, line, eintr)
            IN /\ procLog' = r.procLog
               /\ fds' = r.fds
               /\ stopCalls' = [stopCalls EXCEPT ![recorder_pid_] = @ + 1]
               /\ IF r.audio_path # <<>>
                  THEN /\ file' = Remove(r.file, r.audio_path)
                       /\ removeCalls' = [removeCalls EXCEPT ![PidOfPath(r.audio_path)] = @ + 1]
                  ELSE file' = r.file /\ UNCHANGED removeCalls
               /\ recorder_pid_' = NoPid
               /\ recorder_stdin_fd_' = NoFd
               /\ recorder_stdout_' = NullFile
               /\ is_recording_' = FALSE
       ELSE UNCHANGED <<sessionVars, procLog, stopCalls, file, removeCalls, fds>>
    /\ lastOps' = <<>>
    /\ lastEv' = Ev("destroy", "-", 0, FALSE, FALSE, FALSE, 0)
    /\ UNCHANGED <<crashed, dangling, configValid, call, alive, nextPid, ui, worker,
                   queue, transcribeCalls>>

\* The host destroys input context c.
DestroyContext(c) ==
    /\ ~crashed /\ alive[c]
    /\ alive' = [alive EXCEPT ![c] = FALSE]
    /\ ui' = [ui EXCEPT ![c] = FreedPanel]
    /\ UNCHANGED <<addonAlive, crashed, dangling, configValid, call, sessionVars, nextPid,
                   lastOps, lastEv, worker, queue, osVars>>

----------------------------------------------------------------------------
\* The worker thread of stopRecording (the lambda of lines 325-363).

\* A step that reads a member of the addon through the captured this: of a
\* destroyed addon it is undefined, and either goes on with the stale
\* object or ends the process.
UsesThis(step, rest) ==
    /\ dangling' = (dangling \/ ~addonAlive)
    /\ \/ step /\ UNCHANGED crashed
       \/ ~addonAlive /\ crashed' = TRUE /\ UNCHANGED rest

SetPc(w, pc) == [worker EXCEPT ![w].pc = pc]

\* A thread that has returned and whose callback, if any, has run: what it
\* captured is gone.
Gone(pc) ==
    [pc |-> pc, pid |-> NoPid, stdin_fd |-> NoFd, stdout_file |-> NullFile,
     transcribe |-> FALSE, ic_ref |-> "-", audio_path |-> <<>>, result |-> NoResult]

Ended(w, pc) == [worker EXCEPT ![w] = Gone(pc)]

WorkerStop(w, line, eintr) ==
    /\ ~crashed
    /\ worker[w].pc = "spawned"
    /\ LET r == stopRecorderProcess(worker[w].pid, worker[w].stdin_fd,
                                    worker[w].stdout_file, line, eintr)
       IN /\ procLog' = r.procLog
          /\ file' = r.file
          /\ fds' = r.fds
          /\ stopCalls' = [stopCalls EXCEPT ![worker[w].pid] = @ + 1]
          /\ worker' = [worker EXCEPT ![w].pc = "stopped", ![w].audio_path = r.audio_path]
    /\ UNCHANGED <<hostVars, sessionVars, nextPid, ui, lastOps, lastEv, queue,
                   removeCalls, transcribeCalls>>

\* audio_path.empty(): the failure callback is scheduled when the stop was
\* to transcribe, and the thread returns.
WorkerNoAudio(w) ==
    /\ ~crashed
    /\ worker[w].pc = "stopped" /\ worker[w].audio_path = <<>>
    /\ IF worker[w].transcribe
       THEN UsesThis(/\ queue' = Append(queue, [w |-> w, kind |-> "noaudio"])
                     /\ worker' = SetPc(w, "scheduled"),
                     <<queue, worker>>)
       ELSE /\ worker' = Ended(w, "done")
            /\ UNCHANGED <<queue, crashed, dangling>>
    /\ UNCHANGED <<addonAlive, configValid, call, alive, sessionVars, nextPid, ui, lastOps,
                   lastEv, osVars>>

\* !transcribe: the artifact is removed and the thread returns.
WorkerDiscard(w) ==
    /\ ~crashed
    /\ worker[w].pc = "stopped" /\ worker[w].audio_path # <<>> /\ ~worker[w].transcribe
    /\ file' = Remove(file, worker[w].audio_path)
    /\ removeCalls' = [removeCalls EXCEPT ![PidOfPath(worker[w].audio_path)] = @ + 1]
    /\ worker' = Ended(w, "done")
    /\ UNCHANGED <<hostVars, sessionVars, nextPid, ui, lastOps, lastEv, queue,
                   procLog, stopCalls, transcribeCalls, fds>>

\* A worker that transcribes every non-empty path, whatever the stop was for.
WorkerTranscribeAlways(w, rt) ==
    /\ ~crashed
    /\ worker[w].pc = "stopped" /\ worker[w].audio_path # <<>>
    /\ UsesThis(/\ transcribeCalls' =
                       [transcribeCalls EXCEPT ![PidOfPath(worker[w].audio_path)] = @ + 1]
                /\ worker' = [worker EXCEPT ![w].pc = "transcribed",
                                            ![w].result = transcribeAudio(rt)],
                <<transcribeCalls, worker>>)
    /\ UNCHANGED <<addonAlive, configValid, call, alive, sessionVars, nextPid, ui, lastOps,
                   lastEv, queue, procLog, stopCalls, file, removeCalls, fds>>

WorkerTranscribe(w, rt) ==
    /\ ~crashed
    /\ worker[w].pc = "stopped" /\ worker[w].audio_path # <<>> /\ worker[w].transcribe
    /\ UsesThis(/\ transcribeCalls' =
                       [transcribeCalls EXCEPT ![PidOfPath(worker[w].audio_path)] = @ + 1]
                /\ worker' = [worker EXCEPT ![w].pc = "transcribed",
                                            ![w].result = transcribeAudio(rt)],
                <<transcribeCalls, worker>>)
    /\ UNCHANGED <<addonAlive, configValid, call, alive, sessionVars, nextPid, ui, lastOps,
                   lastEv, queue, procLog, stopCalls, file, removeCalls, fds>>

\* A worker that removes the artifact only of a successful transcription.
WorkerRemoveOnSuccess(w) ==
    /\ ~crashed
    /\ worker[w].pc = "transcribed"
    /\ IF worker[w].result.success
       THEN /\ file' = Remove(file, worker[w].audio_path)
            /\ removeCalls' = [removeCalls EXCEPT ![PidOfPath(worker[w].audio_path)] = @ + 1]
       ELSE UNCHANGED <<file, removeCalls>>
    /\ worker' = SetPc(w, "removed")
    /\ UNCHANGED <<hostVars, sessionVars, nextPid, ui, lastOps, lastEv, queue,
                   procLog, stopCalls, transcribeCalls, fds>>

WorkerRemove(w) ==
    /\ ~crashed
    /\ worker[w].pc = "transcribed"
    /\ file' = Remove(file, worker[w].audio_path)
    /\ removeCalls' = [removeCalls EXCEPT ![PidOfPath(worker[w].audio_path)] = @ + 1]
    /\ worker' = SetPc(w, "removed")
    /\ UNCHANGED <<hostVars, sessionVars, nextPid, ui, lastOps, lastEv, queue,
                   procLog, stopCalls, transcribeCalls, fds>>

WorkerSchedule(w) ==
    /\ ~crashed
    /\ worker[w].pc = "removed"
    /\ UsesThis(/\ queue' = Append(queue, [w |-> w, kind |-> "result"])
                /\ worker' = SetPc(w, "scheduled"),
                <<queue, worker>>)
    /\ UNCHANGED <<addonAlive, configValid, call, alive, sessionVars, nextPid, ui, lastOps,
                   lastEv, osVars>>

----------------------------------------------------------------------------
\* The event dispatcher runs the scheduled callbacks on the owning thread,
\* in the order they were scheduled.

\* The callback of lines 330-335.
NoAudioCallback(c) == showError(Begin(c), "recording failed")

\* The callback of lines 349-362, past its liveness check.
ResultCallback(c, result) ==
    IF result.success /\ result.text # ""
    THEN commitText(Begin(c), result.text)
    ELSE IF ~result.success
    THEN showError(Begin(c), IF result.error = "" THEN "transcribe failed" ELSE result.error)
    ELSE clearUI(Begin(c))

\* A callback that uses the context it captured without resolving it.
CallbackUnchecked(c, kind, result) ==
    UsesThis(Finish(c, IF kind = "noaudio"
                       THEN NoAudioCallback(c)
                       ELSE ResultCallback(c, result)),
             <<ui, lastOps>>)

\* A scheduled callback: scheduleWithContext runs it only for a valid
\* reference and the callback itself returns when ic_ref.get() is null.
Callback(c, kind, result) ==
    IF alive[c]
    THEN UsesThis(Finish(c, IF kind = "noaudio"
                            THEN NoAudioCallback(c)
                            ELSE ResultCallback(c, result)),
                  <<ui, lastOps>>)
    ELSE /\ lastOps' = <<>>
         /\ UNCHANGED <<ui, crashed, dangling>>

Deliver ==
    /\ ~crashed
    /\ queue # <<>>
    /\ LET cb == Head(queue)
           c == worker[cb.w].ic_ref
       IN /\ Callback(c, cb.kind, worker[cb.w].result)
          /\ lastEv' = IF crashed' THEN lastEv
                       ELSE [Ev("deliver", c, 0, FALSE, FALSE, FALSE, 0)
                             EXCEPT !.w = cb.w, !.cb = cb.kind,
                                    !.res = worker[cb.w].result]
          /\ queue' = IF crashed' THEN queue ELSE Tail(queue)
          /\ worker' = IF crashed' THEN worker ELSE Ended(cb.w, "delivered")
    /\ UNCHANGED <<addonAlive, configValid, call, alive, sessionVars, nextPid, osVars>>

----------------------------------------------------------------------------
\* Round trips.

RT(fail, malformed, json) == [fail |-> fail, malformed |-> malformed, json |-> json]

TJson(has_success, success, has_text, text, has_error, error) ==
    [has_success |-> has_success, success |-> success, has_text |-> has_text,
     text |-> text, has_error |-> has_error, error |-> error]

NoTJson == TJson(FALSE, FALSE, FALSE, "", FALSE, "")

\* The transcribe round trips of the session specification: text, no text,
\* an error with and without its message.
TranscribeRTs ==
    {RT("none", FALSE, TJson(TRUE, TRUE, TRUE, "nihao", FALSE, "")),
     RT("none", FALSE, TJson(TRUE, TRUE, TRUE, "", FALSE, "")),
     RT("none", FALSE, TJson(TRUE, FALSE, FALSE, "", TRUE, "decode failed")),
     RT("none", FALSE, TJson(TRUE, FALSE, FALSE, "", TRUE, ""))}

Preedit(has_text, text, has_cursor_pos, cursor_pos) ==
    [has_text |-> has_text, text |-> text, has_cursor_pos |-> has_cursor_pos,
     cursor_pos |-> cursor_pos]

NoKJson ==
    [has_handled |-> FALSE, handled |-> FALSE, has_commit |-> FALSE, commit |-> "",
     has_preedit |-> FALSE, preedit |-> Preedit(FALSE, "", FALSE, 0),
     has_candidates |-> FALSE, candidates |-> <<>>,
     has_highlighted_index |-> FALSE, highlighted_index |-> 0,
     has_page_size |-> FALSE, page_size |-> 0]

Cand(text, comment) == [text |-> text, comment |-> comment]

\* {"handled":true,"commit":"nihao","preedit":{"text":"","cursor_pos":0}}
CommitJson ==
    [NoKJson EXCEPT !.has_handled = TRUE, !.handled = TRUE,
                    !.has_commit = TRUE, !.commit = "nihao",
                    !.has_preedit = TRUE, !.preedit = Preedit(TRUE, "", TRUE, 0)]

\* The key round trips of the session specification.
KeyRTs == {RT("none", FALSE, CommitJson)}

\* The recorder starts and the recorder lines of the session specification.
SessionOutcomes == {"ok", "fork"}
SessionLines(p) == {<<>>, <<PathChar(p), 10>>}
SessionEintr == {0}

\* No call of the client specification has been made.
NoCall == [op |-> "-", rt |-> "-", exc |-> "none", ret |-> "-"]

----------------------------------------------------------------------------
Init ==
    /\ addonAlive = TRUE
    /\ crashed = FALSE
    /\ dangling = FALSE
    /\ configValid \in BOOLEAN
    /\ alive = [c \in Ctx |-> TRUE]
    /\ is_recording_ = FALSE
    /\ recorder_pid_ = NoPid
    /\ recorder_stdin_fd_ = NoFd
    /\ recorder_stdout_ = NullFile
    /\ nextPid = 1
    /\ ui = [c \in Ctx |-> EmptyPanel]
    /\ lastOps = <<>>
    /\ lastEv = Ev("init", "-", 0, FALSE, FALSE, FALSE, 0)
    /\ worker = <<>>
    /\ queue = <<>>
    /\ procLog = [p \in Pid |-> <<>>]
    /\ stopCalls = [p \in Pid |-> 0]
    /\ file = [p \in Pid |-> "none"]
    /\ removeCalls = [p \in Pid |-> 0]
    /\ transcribeCalls = [p \in Pid |-> 0]
    /\ fds = {}
    /\ call = NoCall

\* A press that starts a recorder needs a pid below the bound.
PttEvent ==
    \E c \in Ctx, is_release \in BOOLEAN, outcome \in SessionOutcomes :
        /\ (~is_release /\ ~is_recording_) => nextPid <= MaxRec
        /\ keyEvent(c, PTT_KEYVAL, {}, is_release, outcome, RT("none", FALSE, NoKJson))

OtherKeyEvent ==
    \E c \in Ctx, rt \in KeyRTs : \E keyval \in OrdinaryKeys : keyEvent(c, keyval, {}, FALSE, "ok", rt)

ResetEvent == \E c \in Ctx : reset(c)

DeactivateEvent == \E c \in Ctx : deactivate(c)

DestroyContextEvent == \E c \in Ctx : DestroyContext(c)

DestroyAddonEvent ==
    \E line \in SessionLines(IF recorder_pid_ > 0 THEN recorder_pid_ ELSE 1),
       eintr \in SessionEintr :
        DestroyAddon(line, eintr)

WorkerStep ==
    \E w \in DOMAIN worker :
        \/ \E line \in SessionLines(worker[w].pid), eintr \in SessionEintr :
              WorkerStop(w, line, eintr)
        \/ WorkerNoAudio(w)
        \/ WorkerDiscard(w)
        \/ \E rt \in TranscribeRTs : WorkerTranscribe(w, rt)
        \/ WorkerRemove(w)
        \/ WorkerSchedule(w)

Next ==
    \/ PttEvent
    \/ OtherKeyEvent
    \/ ResetEvent
    \/ DeactivateEvent
    \/ DestroyContextEvent
    \/ DestroyAddonEvent
    \/ WorkerStep
    \/ Deliver

Spec == Init /\ [][Next]_vars

----------------------------------------------------------------------------
\* The session state of the specification, read off the program's state:
\* Recording is the flag; Transcribing is a worker started by a release
\* whose result has not been delivered.

InFlight(w) == worker[w].pc \in {"spawned", "stopped", "transcribed", "removed", "scheduled"}

Transcribing == \E w \in DOMAIN worker : worker[w].transcribe /\ InFlight(w)

SessionState ==
    IF is_recording_ THEN "Recording"
    ELSE IF Transcribing THEN "Transcribing"
    ELSE "Idle"

PttPress(c) ==
    \E outcome \in SessionOutcomes :
        keyEvent(c, PTT_KEYVAL, {}, FALSE, outcome, RT("none", FALSE, NoKJson))

PttRelease(c) ==
    \E outcome \in SessionOutcomes :
        keyEvent(c, PTT_KEYVAL, {}, TRUE, outcome, RT("none", FALSE, NoKJson))

\* C1: a push-to-talk press while Recording and a push-to-talk release
\* while not Recording change neither the session flag nor the stored
\* recorder handle, fork no recorder and spawn no worker.
C1_PttNoOp ==
    [][\A c \in Ctx :
         /\ (is_recording_ /\ PttPress(c))
                => UNCHANGED <<sessionVars, nextPid, procLog, worker, queue>>
         /\ (~is_recording_ /\ PttRelease(c))
                => UNCHANGED <<sessionVars, nextPid, procLog, worker, queue>>]_vars

\* C1 witness: a press has been handled while Recording, with a recorder
\* stored.
C1_Witness ==
    /\ lastEv.kind = "key" /\ lastEv.keyval = PTT_KEYVAL /\ ~lastEv.release
    /\ lastEv.rec /\ is_recording_ /\ recorder_pid_ > 0

AllowedSteps ==
    {<<"Idle", "Recording">>, <<"Recording", "Transcribing">>,
     <<"Recording", "Idle">>, <<"Transcribing", "Idle">>}

\* C2: the session state changes only along Idle->Recording,
\* Recording->Transcribing, Recording->Idle and Transcribing->Idle; a press
\* while Transcribing starts no recorder.
C2_OnlyListedSteps ==
    [][SessionState' # SessionState => <<SessionState, SessionState'>> \in AllowedSteps]_vars

\* Active(w): the detached thread of worker w has not returned.
Active(w) == worker[w].pc \in {"spawned", "stopped", "transcribed", "removed"}

\* C3: at most one worker thread is active at any moment.
C3_OneWorker == Cardinality({w \in DOMAIN worker : Active(w)}) <= 1

Range(seq) == {seq[i] : i \in DOMAIN seq}

\* Recorder p was started and handed out by startRecording.
Started(p) == procLog[p] # <<>> /\ "kill" \notin Range(procLog[p])

\* The owners of the handle of recorder p that have yet to stop it: the
\* session, and the workers that have not called stopRecorderProcess.
Holders(p) ==
    (IF recorder_pid_ = p \/ recorder_stdin_fd_ = p \/ recorder_stdout_ = p THEN 1 ELSE 0)
    + Cardinality({w \in DOMAIN worker :
                      worker[w].pc = "spawned" /\ worker[w].pid = p})

\* C4: every handle of a started recorder is either held by exactly one
\* owner that has yet to stop it, or has been passed to the stop routine
\* exactly once and is held by nobody; no handle is stopped twice or held
\* by the session and a worker, or by two workers, at once.
C4_StopOnce ==
    \A p \in Pid :
        /\ stopCalls[p] <= 1
        /\ Holders(p) <= 1
        /\ Started(p) => Holders(p) + stopCalls[p] = 1
        /\ ~Started(p) => Holders(p) = 0 /\ stopCalls[p] = 0

\* C4 witness: the addon has been destroyed while Recording, so that its
\* destructor stopped one recorder, and a worker stopped another.
C4_Witness ==
    /\ ~addonAlive /\ lastEv.kind = "destroy" /\ lastEv.rec
    /\ \E p, q \in Pid : p # q /\ stopCalls[p] = 1 /\ stopCalls[q] = 1

\* C5: a delivery that runs for a destroyed context makes no UI operation,
\* and the panel of a destroyed context is never written.
C5_DeadContextUntouched ==
    /\ (lastEv.kind = "deliver" /\ ~lastEv.live) => lastOps = <<>>
    /\ \A c \in Ctx : ~alive[c] => ui[c] = FreedPanel

\* C5 witness: the callback of a worker started by a release has run
\* after its context was destroyed.
C5_Witness ==
    /\ lastEv.kind = "deliver" /\ ~lastEv.live /\ lastEv.cb = "result"
    /\ lastEv.res.success /\ lastEv.res.text # ""

\* The workers that hold path and have yet to remove it.
Removers(p) ==
    {w \in DOMAIN worker :
        worker[w].audio_path = <<PathChar(p)>> /\ worker[w].pc \in {"stopped", "transcribed"}}

\* C6: an artifact is removed at most once; while it exists exactly one
\* worker holds its path and has yet to remove it; on the transcribe path
\* it exists until the transcribe round trip has returned and is removed
\* before the delivery is scheduled.
C6_RemovedOnce ==
    /\ \A p \in Pid :
          /\ removeCalls[p] <= 1
          /\ file[p] = "exists" => Cardinality(Removers(p)) = 1 /\ removeCalls[p] = 0
          /\ file[p] = "deleted" => Removers(p) = {} /\ removeCalls[p] = 1
          /\ file[p] = "none" => Removers(p) = {} /\ removeCalls[p] = 0
    /\ \A w \in DOMAIN worker :
          worker[w].audio_path # <<>> =>
              LET p == PidOfPath(worker[w].audio_path)
              IN /\ worker[w].pc = "stopped"
                      => file[p] = "exists" /\ transcribeCalls[p] = 0
                 /\ worker[w].pc = "transcribed"
                      => file[p] = "exists" /\ transcribeCalls[p] = 1
                 /\ worker[w].pc \in {"removed", "scheduled"}
                      => file[p] = "deleted" /\ transcribeCalls[p] = 1
    /\ \A i \in DOMAIN queue :
          queue[i].kind = "result" =>
              file[PidOfPath(worker[queue[i].w].audio_path)] = "deleted"

\* C6 witness: the artifact of a failed transcription has been removed and
\* the delivery is scheduled for a context destroyed in flight, while
\* another artifact was removed without being transcribed.
C6_Witness ==
    /\ queue # <<>>
    /\ Head(queue).kind = "result"
    /\ ~worker[Head(queue).w].result.success
    /\ ~alive[worker[Head(queue).w].ic_ref]
    /\ \E p \in Pid : file[p] = "deleted" /\ transcribeCalls[p] = 0

C8_NoAudioIsNoError ==
    (lastEv.kind = "deliver" /\ lastEv.cb = "noaudio")
        => \A i \in DOMAIN lastOps : lastOps[i].op # "error"

\* C9: a result delivered to a live context clears the panel and then
\* commits the text when it is a success with text, shows the error text
\* (a fallback for an empty one) and commits nothing when it is a failure,
\* and only clears the panel when it is a success without text; the
\* delivery leaves the session flag as it was.
C9_Delivery ==
    (lastEv.kind = "deliver" /\ lastEv.cb = "result" /\ lastEv.live) =>
        LET r == lastEv.res
            msg == IF r.error = "" THEN "transcribe failed" ELSE r.error
        IN /\ (r.success /\ r.text # "")
                => lastOps = <<UiOp("clear", ""), UiOp("commit", r.text)>>
           /\ ~r.success => lastOps = <<UiOp("error", msg)>>
           /\ (r.success /\ r.text = "") => lastOps = <<UiOp("clear", "")>>
           /\ alive[lastEv.ctx] =>
                 ui[lastEv.ctx].preedit = IF r.success THEN NoPreedit
                                          ELSE [kind |-> "err", text |-> msg]
           /\ is_recording_ = lastEv.rec

\* C9 witness: the failure "decode failed" has been delivered to a live
\* context, which shows it, with the session Idle.
C9_Witness ==
    /\ lastEv.kind = "deliver" /\ lastEv.cb = "result" /\ lastEv.live
    /\ lastEv.res = TranscribeResult(FALSE, "", "decode failed")
    /\ alive[lastEv.ctx]
    /\ ui[lastEv.ctx].preedit = [kind |-> "err", text |-> "decode failed"]
    /\ SessionState = "Idle"

----------------------------------------------------------------------------
\* The key specification: the key events of the contexts with the
\* responses of the backend spelled out; the workers do not run.

KJson(handled, commit, preedit, candidates, highlighted_index) ==
    [has_handled |-> handled # "absent", handled |-> handled = "true",
     has_commit |-> commit # "absent", commit |-> IF commit = "absent" THEN "" ELSE commit,
     has_preedit |-> preedit # "absent",
     preedit |-> CASE preedit = "absent" -> Preedit(FALSE, "", FALSE, 0)
                   [] preedit = "notext" -> Preedit(FALSE, "", TRUE, 0)
                   [] preedit = "empty" -> Preedit(TRUE, "", TRUE, 0)
                   [] OTHER -> Preedit(TRUE, preedit, TRUE, 2),
     has_candidates |-> candidates # <<>>, candidates |-> candidates,
     has_highlighted_index |-> highlighted_index >= 0,
     highlighted_index |-> IF highlighted_index >= 0 THEN highlighted_index ELSE 0,
     has_page_size |-> FALSE, page_size |-> 0]

\* The candidate lists of the key specification with their highlighted
\* index (-1: absent; 7: past the end).
KeySpecCands ==
    {<<<<>>, -1>>,
     <<<<Cand("ni3", ""), Cand("ni2", "c")>>, 1>>,
     <<<<Cand("ni3", ""), Cand("ni2", "c")>>, 7>>}

KeySpecRTs ==
    {RT("none", FALSE, KJson(h, cm, pr, cs[1], cs[2])) :
        h \in {"true", "false"},
        cm \in {"absent", "nihao"},
        pr \in {"notext", "empty", "ni"},
        cs \in KeySpecCands}
    \cup {RT("none", FALSE, NoKJson), RT("connect", FALSE, NoKJson),
          RT("none", TRUE, NoKJson)}

KeyPressEvent ==
    \E c \in Ctx, keyval \in OrdinaryKeys, rt \in KeySpecRTs :
        keyEvent(c, keyval, {}, FALSE, "ok", rt)

KeyReleaseEvent ==
    \E c \in Ctx, keyval \in OrdinaryKeys :
        keyEvent(c, keyval, {}, TRUE, "ok", RT("none", FALSE, NoKJson))

NextKeys == KeyPressEvent \/ KeyReleaseEvent \/ PttEvent \/ ResetEvent

SpecKeys == Init /\ [][NextKeys]_vars

\* C10: a forwarded key press commits a non-empty commit text exactly
\* once, before the preedit and the candidates are applied, and is
\* consumed exactly when the handled flag is set.
C10_Forwarded ==
    (lastEv.kind = "key" /\ lastEv.forwarded) =>
        LET st == lastEv.rime
            apply == <<UiOp("preedit", st.preedit_text), UiOp("cands", "")>>
        IN /\ lastEv.accepted = st.handled
           /\ lastOps = IF st.commit_text # ""
                        THEN <<UiOp("clear", ""), UiOp("commit", st.commit_text)>> \o apply
                        ELSE apply
           /\ ui[lastEv.ctx].preedit =
                  IF st.preedit_text = "" THEN NoPreedit
                  ELSE [kind |-> "text", text |-> st.preedit_text]
           /\ Len(ui[lastEv.ctx].cands) = Len(st.candidates)

\* C10 witness: the response handled=true, commit="nihao" with an empty
\* preedit has been handled over a composition in progress: the text is
\* committed, the preedit cleared, the key consumed.
C10_Witness ==
    /\ lastEv.kind = "key" /\ lastEv.forwarded /\ lastEv.accepted
    /\ lastEv.rime.commit_text = "nihao" /\ lastEv.rime.preedit_text = ""
    /\ lastOps[2] = UiOp("commit", "nihao")
    /\ ui[lastEv.ctx].preedit = NoPreedit

----------------------------------------------------------------------------
\* The client specification: the functions of IPCClient called on round
\* trips of every kind; call records the last one with what it returned.

Fails == {"none", "socket", "connect", "send", "recv"}

\* The key_event responses with every subset of the optional fields and
\* sub-fields absent.  A candidate carries its text and its comment:
\* processKey reads both through the const operator[] of nlohmann::json,
\* which is undefined for a key that the candidate lacks.
DecodeJsons ==
    {[has_handled |-> hh, handled |-> hh,
      has_commit |-> hc, commit |-> IF hc THEN "nihao" ELSE "",
      has_preedit |-> hp,
      preedit |-> Preedit(hp /\ ht, IF hp /\ ht THEN "ni" ELSE "",
                          hp /\ hcp, IF hp /\ hcp THEN 2 ELSE 0),
      has_candidates |-> hcs,
      candidates |-> IF hcs THEN <<Cand("ni3", ""), Cand("ni2", "c")>> ELSE <<>>,
      has_highlighted_index |-> hhi, highlighted_index |-> IF hhi THEN 1 ELSE 0,
      has_page_size |-> hps, page_size |-> IF hps THEN 9 ELSE 0] :
        hh \in BOOLEAN, hc \in BOOLEAN, hp \in BOOLEAN, ht \in BOOLEAN,
        hcp \in BOOLEAN, hcs \in BOOLEAN, hhi \in BOOLEAN, hps \in BOOLEAN}

DecodeRTs ==
    {RT("none", FALSE, j) : j \in DecodeJsons}
    \cup {RT(f, m, CommitJson) : f \in Fails, m \in BOOLEAN}

ClientTJsons ==
    {TJson(hs, s, ht, IF ht THEN "nihao" ELSE "", he, IF he THEN "decode failed" ELSE "") :
        hs \in BOOLEAN, s \in BOOLEAN, ht \in BOOLEAN, he \in BOOLEAN}

ClientTranscribeRTs == {RT(f, m, j) : f \in Fails, m \in BOOLEAN, j \in ClientTJsons}

PingRTs ==
    {RT(f, m, [has_pong |-> hp, pong |-> p]) :
        f \in Fails, m \in BOOLEAN, hp \in BOOLEAN, p \in BOOLEAN}

ResetRTs == {RT(f, m, "-") : f \in Fails, m \in BOOLEAN}

clientFrame ==
    <<addonAlive, crashed, dangling, configValid, alive, sessionVars, nextPid, ui,
      lastOps, lastEv, worker, queue, osVars>>

\* The record of a call: its round trip and what it did for its caller.
Called(op, rt, outcome) ==
    [op |-> op, rt |-> rt, exc |-> outcome.exc, ret |-> outcome.ret]

ClientPing ==
    \E rt \in PingRTs :
        /\ call' = Called("ping", rt, ping(rt))
        /\ UNCHANGED clientFrame

ClientTranscribe ==
    \E rt \in ClientTranscribeRTs :
        /\ call' = Called("transcribe", rt, Outcome("none", transcribeAudio(rt)))
        /\ UNCHANGED clientFrame

ClientProcessKey ==
    \E rt \in DecodeRTs :
        /\ call' = Called("key_event", rt, Outcome("none", processKey(rt)))
        /\ UNCHANGED clientFrame

ClientReset ==
    \E rt \in ResetRTs :
        /\ call' = Called("reset", rt, IPCClient_reset(rt))
        /\ UNCHANGED clientFrame

NextClient == ClientPing \/ ClientTranscribe \/ ClientProcessKey \/ ClientReset

SpecClient == Init /\ [][NextClient]_vars

\* The state that the key_event response j stands for: the value of every
\* field that is present, the default of every field that is absent; the
\* highlighted index and the page size belong to the candidate list.
Decoded(j) ==
    [handled |-> IF j.has_handled THEN j.handled ELSE FALSE,
     commit_text |-> IF j.has_commit THEN j.commit ELSE "",
     preedit_text |-> IF j.has_preedit /\ j.preedit.has_text THEN j.preedit.text ELSE "",
     cursor_pos |-> IF j.has_preedit /\ j.preedit.has_cursor_pos
                    THEN j.preedit.cursor_pos ELSE 0,
     candidates |-> IF j.has_candidates THEN j.candidates ELSE <<>>,
     highlighted_index |-> IF j.has_candidates /\ j.has_highlighted_index
                           THEN j.highlighted_index ELSE 0,
     page_size |-> IF j.has_candidates /\ j.has_page_size THEN j.page_size ELSE 5]

\* C11: processKey returns, for a response that arrived and parsed, the
\* values of the present fields with the defaults of the absent ones, and
\* for a failed round trip an unhandled key with an empty commit text, an
\* empty preedit and no candidate.
C11_DecodeDefaults ==
    call.op = "key_event" =>
        IF call.rt.fail # "none" \/ call.rt.malformed
        THEN /\ ~call.ret.handled
             /\ call.ret.commit_text = ""
             /\ call.ret.preedit_text = ""
             /\ call.ret.candidates = <<>>
        ELSE call.exc = "none" /\ call.ret = Decoded(call.rt.json)

----------------------------------------------------------------------------
\* The recorder specification: one context, with every way a start of the
\* recorder fails, every line the recorder may write and waits that signals
\* interrupt.

RecCtx == {"c1"}

RecRTs == {RT("none", FALSE, TJson(TRUE, TRUE, TRUE, "nihao", FALSE, ""))}

RecPttEvent ==
    \E c \in RecCtx, is_release \in BOOLEAN, outcome \in StartOutcomes :
        /\ (~is_release /\ ~is_recording_) => nextPid <= MaxRec
        /\ keyEvent(c, PTT_KEYVAL, {}, is_release, outcome, RT("none", FALSE, NoKJson))

RecDeactivateEvent == \E c \in RecCtx : deactivate(c)

RecDestroyAddonEvent ==
    \E line \in RecorderLines(IF recorder_pid_ > 0 THEN recorder_pid_ ELSE 1),
       eintr \in 0..MaxEintr :
        DestroyAddon(line, eintr)

RecWorkerStep ==
    \E w \in DOMAIN worker :
        \/ \E line \in RecorderLines(worker[w].pid), eintr \in 0..MaxEintr :
              WorkerStop(w, line, eintr)
        \/ WorkerNoAudio(w)
        \/ WorkerDiscard(w)
        \/ \E rt \in RecRTs : WorkerTranscribe(w, rt)
        \/ WorkerRemove(w)
        \/ WorkerSchedule(w)

NextRec ==
    \/ RecPttEvent
    \/ RecDeactivateEvent
    \/ RecDestroyAddonEvent
    \/ RecWorkerStep
    \/ Deliver

SpecRec == Init /\ [][NextRec]_vars

\* A push-to-talk press on c with any outcome of the start.
PttPressStart(c) ==
    \E outcome \in StartOutcomes :
        keyEvent(c, PTT_KEYVAL, {}, FALSE, outcome, RT("none", FALSE, NoKJson))

\* The child of a start attempt has been reaped: a waitpid on it returned
\* its pid.
Reaped(p) == "wait" \in Range(procLog[p])

\* C12: a push-to-talk press in Idle that does not start a recording
\* leaves the session Idle with no handle field stored, leaves open no
\* descriptor that it opened, has terminated and reaped the child if it
\* forked one, spawns no worker and shows exactly one error indicator.
C12_StartFailureCleansUp ==
    [][\A c \in Ctx :
         (~is_recording_ /\ PttPressStart(c) /\ ~is_recording_') =>
            /\ recorder_pid_' = NoPid
            /\ recorder_stdin_fd_' = NoFd
            /\ recorder_stdout_' = NullFile
            /\ fds' = fds
            /\ worker' = worker
            /\ nextPid' # nextPid =>
                   /\ "kill" \in Range(procLog'[nextPid])
                   /\ "wait" \in Range(procLog'[nextPid])
            /\ Len(lastOps') = 1 /\ lastOps'[1].op = "error"
            /\ ui'[c].preedit.kind = "err"]_vars

\* The calls of a stop that is interrupted k times in its wait.
StopCalls(wantAudio, k) ==
    <<"close_in">> \o (IF wantAudio THEN <<"read_line">> ELSE <<>>)
        \o <<"close_out">> \o WaitLoop(k)

\* C14: a worker that has stopped its recorder has closed the recorder's
\* input, then read one line of its output if and only if the stop was to
\* transcribe, then closed the output, then waited for the exit, repeating
\* the interrupted waits.
C14_StopOrder ==
    \A w \in DOMAIN worker :
        worker[w].pc = "stopped" =>
            \E k \in 0..MaxEintr :
                Tail(procLog[worker[w].pid]) = StopCalls(worker[w].transcribe, k)

----------------------------------------------------------------------------
\* The modifier specification: the key events of one context with every
\* set of modifier states, on the keys of the switch combinations and an
\* ordinary key.  65507 and 65508 are FcitxKey_Control_L and _R, 65513 and
\* 65514 are FcitxKey_Alt_L and _R.

ShiftKeys == {FcitxKey_Shift_L, FcitxKey_Shift_R}
ControlKeys == {65507, 65508}
AltKeys == {65513, 65514}

ModKeys == OrdinaryKeys \cup {FcitxKey_space} \cup ShiftKeys \cup ControlKeys \cup AltKeys

ModKeyPress ==
    \E c \in RecCtx, keyval \in ModKeys, states \in SUBSET KeyStates :
        keyEvent(c, keyval, states, FALSE, "ok", RT("none", FALSE, NoKJson))

ModKeyRelease ==
    \E c \in RecCtx, keyval \in ModKeys, states \in SUBSET KeyStates :
        keyEvent(c, keyval, states, TRUE, "ok", RT("none", FALSE, NoKJson))

NextMods == ModKeyPress \/ ModKeyRelease

SpecMods == Init /\ [][NextMods]_vars

\* The press of keyval with states held completes one of Control+Space,
\* Super+Space, Control+Shift and Alt+Shift, whichever of its keys is the
\* one pressed.
IsSwitchCombination(keyval, states) ==
    \/ keyval = FcitxKey_space /\ ("Ctrl" \in states \/ "Super" \in states)
    \/ keyval \in ShiftKeys /\ ("Ctrl" \in states \/ "Alt" \in states)
    \/ keyval \in ControlKeys /\ "Shift" \in states
    \/ keyval \in AltKeys /\ "Shift" \in states

\* C13: no key press that completes a switch combination is sent to the
\* backend.
C13_SwitchNeverForwarded ==
    (lastEv.kind = "key" /\ ~lastEv.release
        /\ IsSwitchCombination(lastEv.keyval, lastEv.states))
        => ~lastEv.forwarded

Bit(m, k) == (m \div 2^k) % 2 = 1

\* C16: the mask sent with a forwarded key press has bit 0 exactly when
\* Shift is held, bit 1 exactly when CapsLock is, bit 2 exactly when
\* Control is, bit 3 exactly when Alt is, and no other bit.
C16_Mask ==
    (lastEv.kind = "key" /\ lastEv.forwarded) =>
        /\ lastEv.mask \in 0..15
        /\ Bit(lastEv.mask, 0) <=> "Shift" \in lastEv.states
        /\ Bit(lastEv.mask, 1) <=> "CapsLock" \in lastEv.states
        /\ Bit(lastEv.mask, 2) <=> "Ctrl" \in lastEv.states
        /\ Bit(lastEv.mask, 3) <=> "Alt" \in lastEv.states

\* C16 witness: an ordinary key has been forwarded with Shift, Control and
\* Super held, and with the mask 0b0101.
C16_Witness ==
    /\ lastEv.kind = "key" /\ lastEv.forwarded
    /\ lastEv.states = {"Shift", "Ctrl", "Super"}
    /\ lastEv.mask = 5

----------------------------------------------------------------------------
\* C15: no step of a worker or of its callback uses a member of the addon
\* after the addon has been destroyed.
C15_NoUseAfterDestroy == ~dangling /\ ~crashed

\* The round trip rt fails: a step of sendRequest fails or the response
\* does not parse.
Failed(rt) == rt.fail # "none" \/ rt.malformed

\* C17: no exception leaves ping, transcribeAudio or reset; of a failed
\* round trip ping returns false and transcribeAudio returns a failure with
\* a non-empty error and an empty text.
C17_FailuresSwallowed ==
    call.op \in {"ping", "transcribe", "reset"} =>
        /\ call.exc = "none"
        /\ (call.op = "ping" /\ Failed(call.rt)) => call.ret = FALSE
        /\ (call.op = "transcribe" /\ Failed(call.rt)) =>
               /\ ~call.ret.success
               /\ call.ret.error # ""
               /\ call.ret.text = ""

\* C17 witness: ping has returned false for a transport that failed to
\* connect.
C17_Witness ==
    /\ call.op = "ping"
    /\ call.rt.fail = "connect"
    /\ call.exc = "none"
    /\ call.ret = FALSE

\* A key event on context c, of the push-to-talk key or of another key.
AnyKeyEvent(c) ==
    \E keyval \in {PTT_KEYVAL} \cup OrdinaryKeys, is_release \in BOOLEAN,
       outcome \in SessionOutcomes, rt \in KeyRTs :
        keyEvent(c, keyval, {}, is_release, outcome, rt)

ShowsError(c) == ui[c].preedit.kind = "err"

\* C18: an error indicator on a context stays while no handler runs, and
\* the next key event on the context removes it (unless that key event
\* fails and shows an error of its own).
C18_ErrorClearedByNextKey ==
    [][\A c \in Ctx :
         /\ (ShowsError(c) /\ lastEv' = lastEv /\ alive'[c]) => ui'[c] = ui[c]
         /\ (ShowsError(c) /\ AnyKeyEvent(c)) =>
                \/ ui'[c].preedit.kind # "err"
                \/ \E i \in DOMAIN lastOps' : lastOps'[i].op = "error"]_vars

\* C19: a transcribe request is sent at most once for a recorder, and only
\* by the worker that a push-to-talk release handed that recorder, for the
\* non-empty path that its stop returned; a worker is to transcribe only if
\* a release spawned it, and the destructor sends no request.
C19_TranscribeOnlyReleased ==
    [][/\ \A p \in Pid :
            transcribeCalls'[p] # transcribeCalls[p] =>
               /\ transcribeCalls[p] = 0 /\ transcribeCalls'[p] = 1
               /\ \E w \in DOMAIN worker :
                      /\ worker[w].pc = "stopped" /\ worker'[w].pc = "transcribed"
                      /\ worker[w].transcribe
                      /\ worker[w].pid = p
                      /\ worker[w].audio_path = <<PathChar(p)>>
       /\ \A w \in DOMAIN worker' :
            worker'[w].transcribe =>
               IF w \in DOMAIN worker
               THEN worker[w].transcribe
               ELSE \E c \in Ctx : is_recording_ /\ PttRelease(c)
       /\ (addonAlive /\ ~addonAlive') => transcribeCalls' = transcribeCalls]_vars

\* C19 witness: one recording has been transcribed, and the artifact of
\* another one, stopped by a deactivation or by the destructor, has been
\* removed without a transcribe request.
C19_Witness ==
    \E p, q \in Pid :
        /\ p # q
        /\ transcribeCalls[p] = 1
        /\ stopCalls[q] = 1 /\ transcribeCalls[q] = 0 /\ removeCalls[q] = 1

----------------------------------------------------------------------------
\* The scheduling specification: push-to-talk events, deactivations and the
\* destruction of contexts and of the addon, with the detached threads
\* scheduled fairly.  stopRecorderProcess and transcribeAudio return: the
\* recorder closes its output and exits once its input is closed, and the
\* backend closes the connection.

NextLive ==
    \/ PttEvent
    \/ DeactivateEvent
    \/ DestroyContextEvent
    \/ DestroyAddonEvent
    \/ WorkerStep
    \/ Deliver

SpecLive == Init /\ [][NextLive]_vars /\ WF_vars(WorkerStep)

\* A push-to-talk release has just handed recorder p to a worker.
ReleaseAccepted(p) ==
    \E w \in DOMAIN worker :
        worker[w].pid = p /\ worker[w].transcribe /\ worker[w].pc = "spawned"

\* Recorder p is reaped and the worker that was handed it has scheduled
\* one callback.
ReapedAndScheduled(p) ==
    \E w \in DOMAIN worker :
        /\ worker[w].pid = p /\ worker[w].pc = "scheduled"
        /\ Reaped(p)
        /\ Cardinality({i \in DOMAIN queue : queue[i].w = w}) = 1

\* C20: every push-to-talk release accepted while Recording is followed by
\* the reaping of its recorder and by the scheduling of exactly one
\* callback, and no worker gets past its stop without having reaped the
\* recorder it was handed.
C20_ReleaseCompletes ==
    /\ \A p \in Pid : ReleaseAccepted(p) ~> ReapedAndScheduled(p)
    /\ [](\A w \in DOMAIN worker :
             (worker[w].pc # "spawned" /\ worker[w].pid # NoPid) =>
                 Reaped(worker[w].pid))

----------------------------------------------------------------------------
\* The recorder handle that the session stores.

HandleComplete ==
    recorder_pid_ > 0 /\ recorder_stdin_fd_ >= 0 /\ recorder_stdout_ # NullFile

HandleUnset ==
    recorder_pid_ = NoPid /\ recorder_stdin_fd_ = NoFd /\ recorder_stdout_ = NullFile

\* C22: between the handlers of the owning thread the session is Recording
\* exactly if a complete recorder handle is stored, and when it is not
\* Recording the three handle fields are all unset.
C22_RecordingIffHandle ==
    /\ is_recording_ <=> HandleComplete
    /\ ~is_recording_ => HandleUnset

\* C22 witness: the second recorder is stored as a complete handle while
\* Recording, after the handle of the first was handed to a worker.
C22_Witness ==
    /\ is_recording_
    /\ recorder_pid_ = 2 /\ recorder_stdin_fd_ = 2 /\ recorder_stdout_ = 2
    /\ Len(worker) = 1

----------------------------------------------------------------------------
\* The connection specification: IPCClient::sendRequest step by step.  The
\* frame of the call is kept in call: pc is the position in the function,
\* size the bytes of the request, peer the bytes that the backend sends
\* before it closes, log the system calls made with what they returned.

Sys(sys, ret, errno) == [sys |-> sys, ret |-> ret, errno |-> errno]

SendFrame(n, m) ==
    [op |-> "sendRequest", pc |-> "socket", size |-> n, peer |-> m,
     total_sent |-> 0, response |-> 0, open |-> FALSE, eintr |-> 0,
     log |-> <<>>, exc |-> "none", what |-> ""]

Logged(f, e) == [f EXCEPT !.log = Append(@, e)]

\* close(sock)
CloseSock(f) == [Logged(f, Sys("close", 0, "none")) EXCEPT !.open = FALSE]

\* throw std::runtime_error(...)
Throw(f, fail) ==
    [f EXCEPT !.pc = "thrown", !.exc = "runtime_error", !.what = ExceptionWhat(fail)]

At(pc) == call.op = "sendRequest" /\ call.pc = pc

\* A caller enters sendRequest; no call is in progress on this client.
SendBegin ==
    \E n \in 1..MaxReq, m \in 0..MaxResp :
        /\ call.op = "sendRequest" => call.pc \in {"returned", "thrown"}
        /\ call' = SendFrame(n, m)
        /\ UNCHANGED clientFrame

\* Lines 27-30.
SendSocket ==
    \E ok \in BOOLEAN :
        /\ At("socket")
        /\ call' = IF ok
                   THEN [Logged(call, Sys("socket", 0, "none"))
                         EXCEPT !.open = TRUE, !.pc = "connect"]
                   ELSE Throw(Logged(call, Sys("socket", -1, "other")), "socket")
        /\ UNCHANGED clientFrame

\* A connect whose failure path throws without closing the socket.
SendConnectLeaks ==
    \E ok \in BOOLEAN :
        /\ At("connect")
        /\ call' = IF ok
                   THEN [Logged(call, Sys("connect", 0, "none")) EXCEPT !.pc = "send"]
                   ELSE Throw(Logged(call, Sys("connect", -1, "other")), "connect")
        /\ UNCHANGED clientFrame

\* Lines 38-41.
SendConnect ==
    \E ok \in BOOLEAN :
        /\ At("connect")
        /\ call' = IF ok
                   THEN [Logged(call, Sys("connect", 0, "none")) EXCEPT !.pc = "send"]
                   ELSE Throw(CloseSock(Logged(call, Sys("connect", -1, "other"))),
                              "connect")
        /\ UNCHANGED clientFrame

\* One turn of the loop of lines 45-56: send writes k of the remaining
\* bytes, is interrupted, or fails.
SendSend ==
    \E res \in {"sent", "eintr", "fail"}, k \in 1..MaxReq :
        /\ At("send")
        /\ call.total_sent < call.size
        /\ IF res = "sent" THEN k <= call.size - call.total_sent ELSE k = 1
        /\ res = "eintr" => call.eintr < MaxEintr
        /\ call' = CASE res = "sent" ->
                           [Logged(call, Sys("send", k, "none"))
                            EXCEPT !.total_sent = @ + k]
                     [] res = "eintr" ->
                           [Logged(call, Sys("send", -1, "EINTR"))
                            EXCEPT !.eintr = @ + 1]
                     [] OTHER ->
                           Throw(CloseSock(Logged(call, Sys("send", -1, "other"))),
                                 "send")
        /\ UNCHANGED clientFrame

\* Line 58, once the loop has ended.
SendShutdown ==
    /\ At("send")
    /\ ~(call.total_sent < call.size)
    /\ call' = [Logged(call, Sys("shutdown", 0, "none")) EXCEPT !.pc = "recv"]
    /\ UNCHANGED clientFrame

\* One turn of the loop of lines 63-76: recv returns k of the bytes that
\* the backend still sends, returns 0 once the backend has closed, is
\* interrupted, or fails.
SendRecv ==
    \E res \in {"data", "eof", "eintr", "fail"}, k \in 1..MaxResp :
        /\ At("recv")
        /\ IF res = "data" THEN k <= call.peer - call.response ELSE k = 1
        /\ res = "eof" => call.response = call.peer
        /\ res = "eintr" => call.eintr < MaxEintr
        /\ call' = CASE res = "data" ->
                           [Logged(call, Sys("recv", k, "none"))
                            EXCEPT !.response = @ + k]
                     [] res = "eof" ->
                           [Logged(call, Sys("recv", 0, "none")) EXCEPT !.pc = "close"]
                     [] res = "eintr" ->
                           [Logged(call, Sys("recv", -1, "EINTR"))
                            EXCEPT !.eintr = @ + 1]
                     [] OTHER ->
                           Throw(CloseSock(Logged(call, Sys("recv", -1, "other"))),
                                 "recv")
        /\ UNCHANGED clientFrame

\* Lines 78-79.
SendClose ==
    /\ At("close")
    /\ call' = [CloseSock(call) EXCEPT !.pc = "returned"]
    /\ UNCHANGED clientFrame

NextSend ==
    \/ SendBegin
    \/ SendSocket
    \/ SendConnect
    \/ SendSend
    \/ SendShutdown
    \/ SendRecv
    \/ SendClose

SpecSend == Init /\ [][NextSend]_vars

\* The positions in the log of the calls of sys.
Calls(sys) == {i \in DOMAIN call.log : call.log[i].sys = sys}

\* A call that failed other than by an interruption.
HardFailure(e) == e.ret < 0 /\ e.errno # "EINTR"

\* The bytes that the send calls of a log have written.
RECURSIVE BytesSent(_)
BytesSent(log) ==
    IF log = <<>> THEN 0
    ELSE (IF Head(log).sys = "send" /\ Head(log).ret > 0 THEN Head(log).ret ELSE 0)
         + BytesSent(Tail(log))

\* C21: a call of sendRequest makes one socket and connects it once, half
\* closes it only once the whole request is written and before any recv,
\* reads until the backend closes, goes on after an interrupted send or
\* recv, does nothing but close after a failure, and has closed the socket
\* it opened exactly once when it returns or throws.
C21_Framing ==
    call.op = "sendRequest" =>
        LET log == call.log
            done == call.pc \in {"returned", "thrown"}
            opened == \E i \in Calls("socket") : log[i].ret >= 0
        IN /\ Cardinality(Calls("socket")) <= 1
           /\ Cardinality(Calls("connect")) <= 1
           /\ Cardinality(Calls("shutdown")) <= 1
           /\ BytesSent(log) <= call.size
           /\ \A i \in Calls("shutdown") :
                  /\ BytesSent(SubSeq(log, 1, i - 1)) = call.size
                  /\ \A j \in Calls("recv") : i < j
                  /\ \A j \in Calls("send") : j < i
           /\ \A j \in Calls("recv") : \E i \in Calls("shutdown") : i < j
           /\ \A i \in DOMAIN log :
                  HardFailure(log[i]) =>
                      \A j \in DOMAIN log : j > i => log[j].sys = "close"
           /\ call.pc = "thrown" <=> \E i \in DOMAIN log : HardFailure(log[i])
           /\ call.pc = "returned" =>
                  /\ call.response = call.peer
                  /\ Len(log) >= 2
                  /\ log[Len(log) - 1] = Sys("recv", 0, "none")
           /\ Cardinality(Calls("close")) = IF done /\ opened THEN 1 ELSE 0
           /\ done => ~call.open
           /\ \A i \in Calls("close") : i = Len(log)

\* C21 witness: a call has returned the whole response after a request
\* written in two parts, an interrupted send and an interrupted recv.
C21_Witness ==
    /\ At("returned")
    /\ call.size = 2 /\ call.peer = 2 /\ call.response = 2
    /\ Cardinality({i \in Calls("send") : call.log[i].ret = 1}) = 2
    /\ \E i \in Calls("send") : call.log[i].errno = "EINTR"
    /\ \E i \in Calls("recv") : call.log[i].errno = "EINTR"

====
